---- MODULE Spec2Model ----
(***************************************************************************)
(* Model of dcm_organizer.py: the incremental DICOM series organizer, its  *)
(* batch driver and the processed-file ledger (logs/organized_dcms.log).   *)
(*                                                                         *)
(* The file system is a function from file paths to the identity of the    *)
(* file stored there.  A path is a sequence of components: the input       *)
(* folder is <<"in">>, a scan sub-directory <<"in", "d1">>, a series       *)
(* directory <<"out", uid>>, a file <<dir..., name>>.  A file keeps its    *)
(* identity (the path it had initially) when it is moved, so duplication,  *)
(* loss and overwriting are visible.                                       *)
(***************************************************************************)
EXTENDS Integers, Sequences, FiniteSets, TLC

\* ------------------------------------------------------------------ bounds
MaxRuns == 2        \* invocations of the program in one behaviour
MaxFaults == 1      \* file-system failures (makedirs / move) injected
MaxCrashes == 1     \* process crashes injected

\* ------------------------------------------------------------- the universe
Names == {"a.dcm", "b.dcm"}
SubDirNames == {"d1", "d2"}
UIDs == {"S1", "S2"}
Absent == "<absent>"          \* a DICOM attribute the data set does not have

IFOLDER == <<"in">>                \* the -i folder given in sub-directory mode
OUT == <<"out">>              \* the -o folder

MODALITY == "CT"
BODYPART == "HEAD"

Nil == <<>>

Range(s) == {s[j] : j \in 1..Len(s)}

Perms(S) == {s \in [1..Cardinality(S) -> S] : \A x, y \in 1..Cardinality(S) : s[x] = s[y] => x = y}

\* what a file holds: nothing (no file), bytes pydicom cannot parse, or a data set
NoFile == [kind |-> "none", Modality |-> Absent, BodyPartExamined |-> Absent, SeriesInstanceUID |-> Absent]
Corrupt == [kind |-> "corrupt", Modality |-> Absent, BodyPartExamined |-> Absent, SeriesInstanceUID |-> Absent]
Dicom(m, b, u) == [kind |-> "dicom", Modality |-> m, BodyPartExamined |-> b, SeriesInstanceUID |-> u]

Contents == {NoFile, Corrupt,
             Dicom("CT", "HEAD", "S1"), Dicom("CT", "HEAD", "S2"),
             Dicom("MR", "HEAD", "S2"), Dicom("CT", "CHEST", "S1"),
             Dicom("CT", Absent, "S1"), Dicom("MR", Absent, "S2")}

\* SRC + sub_dir + '/'
SubDirPath(d) == Append(IFOLDER, d)
SrcDirs == {SubDirPath(d) : d \in SubDirNames}
\* SRC + dcm and out_dir + '/' + dcm
FilePath(dir, n) == Append(dir, n)
\* (variant: the directory does not depend on the series)
out_dir_OneDir(u) == Append(OUT, "S1")

\* OUT + ds.SeriesInstanceUID
out_dir(u) == Append(OUT, u)

SrcPaths == {FilePath(d, n) : d \in SrcDirs, n \in Names}
\* the files a behaviour starts with: two names in d1, one of them also in d2
InitialPaths == {<<"in", "d1", "a.dcm">>, <<"in", "d1", "b.dcm">>, <<"in", "d2", "a.dcm">>}
OutPaths == {FilePath(out_dir(u), n) : u \in UIDs, n \in Names}
AllPaths == SrcPaths \cup OutPaths

\* os.listdir(dir) as a set of names
Listing(f, dir) == {n \in Names : f[FilePath(dir, n)] # Nil}

\* pydicom.dcmread raises on a file that is not DICOM
DcmreadFails(c) == c.kind # "dicom"

\* ds.Modality == MODALITY and ds.BodyPartExamined == BODYPART
\* (an absent attribute raises AttributeError; "and" short-circuits)
FilterRaises(c) ==
    \/ c.Modality = Absent
    \/ c.Modality = MODALITY /\ c.BodyPartExamined = Absent

\* (variant: "or" for "and")
FilterMatches_Or(c) == c.Modality = MODALITY \/ c.BodyPartExamined = BODYPART

FilterMatches(c) == c.Modality = MODALITY /\ c.BodyPartExamined = BODYPART

\* the metadata read of one file fails: lines 29-31 raise
ReadFails(c) ==
    \/ DcmreadFails(c)
    \/ FilterRaises(c)
    \/ FilterMatches(c) /\ c.SeriesInstanceUID = Absent

\* ------------------------------------------------------------ command lines
\* a command-line token: -n, --name, or a word that does not start with a dash
Short(n) == [kind |-> "short", name |-> n]
Long(n) == [kind |-> "long", name |-> n]
Word(w) == [kind |-> "word", name |-> w]

GetoptError == [ok |-> FALSE, opts |-> <<>>, args |-> <<>>]

\* getopt.getopt(argv, shortopts, longopts): scan the options up to the first word;
\* an option not in the tables, or a valued option at the end of the line, raises
\* GetoptError.  A table gives the options without and with an argument.  (Long
\* options are compared whole: no name used below is a proper prefix of another.)
RECURSIVE GetoptFrom(_, _, _, _, _)
GetoptFrom(argv, j, shortopts, longopts, opts) ==
    IF j > Len(argv) \/ argv[j].kind = "word"
    THEN [ok |-> TRUE, opts |-> opts, args |-> SubSeq(argv, j, Len(argv))]
    ELSE LET t == argv[j]
             table == IF t.kind = "short" THEN shortopts ELSE longopts
         IN  IF t.name \in table.flags
             THEN GetoptFrom(argv, j + 1, shortopts, longopts, Append(opts, [opt |-> t, arg |-> ""]))
             ELSE IF t.name \in table.valued /\ j < Len(argv)
             THEN GetoptFrom(argv, j + 2, shortopts, longopts,
                             Append(opts, [opt |-> t, arg |-> argv[j + 1].name]))
             ELSE GetoptError

Getopt(argv, shortopts, longopts) == GetoptFrom(argv, 1, shortopts, longopts, <<>>)

\* dcm_organizer: "hi:o:s:b:m:" and ["ifolder=","ofolder=","subdirs","bodypart=","modality="]
OrganizerShort == [flags |-> {"h"}, valued |-> {"i", "o", "s", "b", "m"}]
OrganizerLong == [flags |-> {"subdirs"}, valued |-> {"ifolder", "ofolder", "bodypart", "modality"}]

\* command lines given to dcm_organizer: a well-formed one, an unknown short option,
\* an unknown long option, an option without its argument
OrganizerArgvs == {<<Short("i"), Word("in"), Short("o"), Word("out")>>,
                   <<Short("x")>>,
                   <<Long("verbose")>>,
                   <<Short("i"), Word("in"), Short("o")>>}

\* exit_status while no process has ended by itself
Running == -1

\* regular files that may lie in the -i folder next to the scan sub-directories
StrayNames == {"notes.txt"}

\* the ledger file: missing, not parseable (truncated or partly written), or a JSON list
LedgerMissing == [state |-> "missing", items |-> <<>>]
LedgerPartial == [state |-> "partial", items |-> <<>>]
LedgerJson(s) == [state |-> "json", items |-> s]

\* (variant: the ledger is never read back)
Load_NoHistory(lf) == {}

\* set(json.load(infile)), or set() on any exception
Load(lf) == IF lf.state = "json" THEN Range(lf.items) ELSE {}

\* (variant: an empty list is written)
Dumps_Empty(S) == {LedgerJson(<<>>)}

\* json.dump(list(processed_dcms), infile): list(set) has an arbitrary order
Dumps(S) == {LedgerJson(s) : s \in Perms(S)}

\* (variants: the returned list replaces the ledger; the returned list is dropped)
Merge_Replace(ledger, returned) == returned
Merge_Forget(ledger, returned) == ledger

\* processed_dcms.update(input_dcms)
Merge(ledger, returned) == ledger \cup returned

VARIABLES
    meta,             \* what each initial file holds (never changes)
    fs,               \* path -> identity of the file stored there, or Nil
    dirs,             \* the series directories that exist
    ledgerFile,       \* logs/organized_dcms.log
    pc,               \* where the process is; "idle", "done", "crashed": no process
    SUBDIRS, SRC,     \* the parsed arguments
    sub_dirs, k,      \* the batch loop: os.listdir(SRC) and the position in it
    SRC_subdir,       \* the directory the organizer is working on
    processed_dcms,   \* the ledger in memory
    input_dcms, i,    \* organizer: the candidates and the loop index
    ds,               \* organizer: the data set just read
    counter_subdir, error_count_subdir, totalFiles_subdir, UID_count_subdir,
    counter, error_count, totalFiles, UID_count,
    runs, faults, crashes,      \* budgets used
    moveFailed,       \* history: a makedirs/move failed in this organizer call
    presented,        \* history: the filenames handed to the metadata read so far
    lastSaved,        \* history: the set written by the last completed save
    runSeen,          \* history: filenames evaluated in the finished sub-directories of this run
    repeat,           \* history: this run repeats the previous, completed run
    ledger0,          \* history: the ledger loaded at the start of this run
    crashPc,          \* history: where the process was when it crashed
    stray,            \* the names of the regular files lying directly in the -i folder (never changes)
    logs_dir,         \* <cwd>/logs/ exists
    run_log,          \* the number of run log files written to <cwd>/logs/
    exit_status,      \* the exit status of the last process that ended by itself, or Running
    uidSum,           \* history: the sum of the unique-series counts returned so far
    ledgerFile0,      \* history: the ledger file as the behaviour found it
    \* skull_extraction.py
    sk_pc,            \* where skull_extraction is; "off": not running
    stl_file,         \* the name of the STL file being processed
    mesh,             \* the input mesh: the face count of each connected component, in split order
    splitted_mesh,    \* mesh.split(only_watertight=False)
    skull_position,   \* the index np.argmax returned (0-based)
    exported,         \* the output folder: file name -> the component exported under it
    sk_errors,        \* main's error count
    \* dicom2stl_tuned.py
    cv_pc,            \* where the converter is; "off": not running
    cv_sub_dirs,      \* sub_dirs: what each scan sub-directory holds
    cv_n,             \* the position of the batch loop in sub_dirs
    cv_counter,       \* counter
    cv_errors,        \* errors
    cv_attempted,     \* history: the positions whose conversion was started
    cv_stls,          \* the positions whose STL file was written
    CTonly, doubleThreshold, thresholds, tissueType,        \* the parsed options
    tempDir,          \* tempDir: <<>> for "", else the name of a directory
    tempDirs,         \* the temporary directories that exist
    cv_made,          \* the number of tempfile.mkdtemp() calls
    cv_exit,          \* the exit status of the converter, or Running
    cv_processed,     \* the 'SCANS PROCESSED' figure of the summary
    \* dicom2skull_pipe.py
    pp_pc,            \* where the pipeline is; "off": not running
    pp_argv,          \* its command line
    clean_tmp, keep_duplicates, dicom_dir, output,        \* the parsed options
    isovalue, lowq_threshold,         \* the parsed numbers, as an f-string renders them
    tmp_dir,          \* <cwd>/tmp/ exists
    stage1_argv,      \* the command line given to dicom2stl_tuned.py
    stage1_status,    \* the exit status of the first stage, or Running
    stage1_attempted, \* the first stage reached its batch loop
    stage2_ran,       \* skull_extraction.py has been run
    pp_removed        \* the pipeline has removed <cwd>/tmp/

fsVars == <<meta, fs, dirs, ledgerFile>>
argVars == <<SUBDIRS, SRC, sub_dirs, k, SRC_subdir>>
orgVars == <<input_dcms, i, ds, counter_subdir, error_count_subdir, totalFiles_subdir, UID_count_subdir>>
totVars == <<counter, error_count, totalFiles, UID_count>>
budgetVars == <<runs, faults, crashes>>
histVars == <<moveFailed, presented, lastSaved, runSeen, repeat, ledger0, crashPc>>
envVars == <<stray, logs_dir, run_log, exit_status>>
organizerVars == <<fsVars, pc, argVars, processed_dcms, orgVars, totVars, budgetVars, histVars,
                   envVars, uidSum, ledgerFile0>>
skullVars == <<sk_pc, stl_file, mesh, splitted_mesh, skull_position, exported, sk_errors>>
convVars == <<cv_pc, cv_sub_dirs, cv_n, cv_counter, cv_errors, cv_attempted, cv_stls, CTonly,
              doubleThreshold, thresholds, tissueType, tempDir, tempDirs, cv_made, cv_exit, cv_processed>>
pipeVars == <<pp_pc, pp_argv, clean_tmp, keep_duplicates, isovalue, lowq_threshold, dicom_dir, output,
              tmp_dir, stage1_argv, stage1_status, stage1_attempted, stage2_ran, pp_removed>>
otherVars == <<skullVars, convVars, pipeVars>>
vars == <<organizerVars, otherVars>>

\* no process: not started, ended with the summary, killed, ended by an unhandled
\* exception, ended after the usage text
Stopped == {"idle", "done", "crashed", "aborted", "usage"}

\* no organizer call is in progress: its locals do not exist
NoCall ==
    /\ input_dcms = <<>> /\ i = 0 /\ ds = NoFile
    /\ counter_subdir = 0 /\ error_count_subdir = 0 /\ totalFiles_subdir = 0 /\ UID_count_subdir = 0

ResetCall ==
    /\ input_dcms' = <<>> /\ i' = 0 /\ ds' = NoFile
    /\ counter_subdir' = 0 /\ error_count_subdir' = 0 /\ totalFiles_subdir' = 0 /\ UID_count_subdir' = 0

\* before the first invocation, but for the files of the input folder and the ledger file
InitOrganizer ==
    /\ fs = [p \in AllPaths |-> IF p \in SrcPaths /\ meta[p].kind # "none" THEN p ELSE Nil]
    /\ dirs = {}
    /\ pc = "idle"
    /\ SUBDIRS = FALSE /\ SRC = IFOLDER /\ sub_dirs = <<>> /\ k = 0 /\ SRC_subdir = IFOLDER
    /\ processed_dcms = {}
    /\ NoCall
    /\ counter = 0 /\ error_count = 0 /\ totalFiles = 0 /\ UID_count = 0
    /\ runs = 0 /\ faults = 0 /\ crashes = 0
    /\ moveFailed = FALSE /\ presented = {} /\ lastSaved = {} /\ runSeen = {}
    /\ repeat = FALSE /\ ledger0 = {} /\ crashPc = "none"
    /\ logs_dir = FALSE /\ run_log = 0 /\ exit_status = Running
    /\ uidSum = 0
    /\ ledgerFile0 = ledgerFile

\* ------------------------------------------------- skull_extraction.py: state
MaxComponents == 3      \* connected components of an input mesh
MaxFaces == 3           \* faces of one component

StlNames == {"s1.stl", "s2.stl"}
Meshes == UNION {[1..n -> 1..MaxFaces] : n \in 0..MaxComponents}
NoExport == [index |-> -1, faces |-> 0]

SkullOff ==
    /\ sk_pc = "off" /\ stl_file = "" /\ mesh = <<>> /\ splitted_mesh = <<>>
    /\ skull_position = -1 /\ exported = [n \in StlNames |-> NoExport] /\ sk_errors = 0

\* ------------------------------------------------- dicom2stl_tuned.py: state
MaxScans == 2           \* scan sub-directories of the input folder

\* what a scan sub-directory holds: a CT series, a series of another modality,
\* no DICOM series, a series a library call fails on
ScanKinds == {"ct", "mr", "none", "broken"}

\* line 45; -c sets it again (line 133), -D sets cleanFlag (line 128), nothing clears it
cleanUp == TRUE

NoTempDir == <<>>
UserTempDir == <<"T">>
\* tempfile.mkdtemp(): a new directory at each call
Mkdtemp(j) == <<"tmp", j>>

ConvOff ==
    /\ cv_pc = "off" /\ cv_sub_dirs = <<>> /\ cv_n = 0 /\ cv_counter = 0 /\ cv_errors = 0
    /\ cv_attempted = {} /\ cv_stls = {}
    /\ CTonly = FALSE /\ doubleThreshold = FALSE /\ thresholds = <<>> /\ tissueType = ""
    /\ tempDir = NoTempDir /\ tempDirs = {} /\ cv_made = 0
    /\ cv_exit = Running /\ cv_processed = 0

\* ------------------------------------------------- dicom2skull_pipe.py: state
PipeOff ==
    /\ pp_pc = "off" /\ pp_argv = <<>>
    /\ clean_tmp = TRUE /\ keep_duplicates = FALSE /\ isovalue = "150" /\ lowq_threshold = "100"
    /\ dicom_dir = "" /\ output = ""
    /\ tmp_dir = FALSE /\ stage1_argv = <<>> /\ stage1_status = Running
    /\ stage1_attempted = FALSE /\ stage2_ran = FALSE /\ pp_removed = FALSE

Init ==
    /\ SkullOff /\ ConvOff /\ PipeOff
    /\ meta \in {m \in [SrcPaths -> Contents] : \A p \in SrcPaths \ InitialPaths : m[p] = NoFile}
    /\ stray = {}
    /\ ledgerFile = LedgerMissing
    /\ InitOrganizer

\* main, lines 58-79: create <cwd>/logs/ if absent and open the run log
SetUpLogging ==
    /\ logs_dir' = TRUE
    /\ run_log' = run_log + 1

\* main, lines 50-122/133: set up logging, load the ledger, parse the arguments, enter the
\* organizer on the first directory (flat: SRC itself; -s: the first entry of os.listdir(SRC))
StartRun(subdirs, src, order) ==
    /\ pc \in Stopped
    /\ runs < MaxRuns
    /\ runs' = runs + 1
    /\ SetUpLogging
    /\ exit_status' = Running
    /\ processed_dcms' = Load(ledgerFile)
    /\ ledger0' = Load(ledgerFile)
    /\ repeat' = (pc = "done" /\ subdirs = SUBDIRS /\ src = SRC)
    /\ SUBDIRS' = subdirs
    /\ SRC' = src
    /\ sub_dirs' = IF subdirs THEN order ELSE <<>>
    /\ k' = IF subdirs THEN 1 ELSE 0
    /\ SRC_subdir' = IF subdirs THEN SubDirPath(order[1]) ELSE src
    /\ counter' = 0 /\ error_count' = 0 /\ totalFiles' = 0 /\ UID_count' = 0
    /\ runSeen' = {}
    /\ crashPc' = "none"
    /\ ResetCall
    /\ pc' = "organizer"
    /\ UNCHANGED <<fsVars, faults, crashes, moveFailed, presented, lastSaved, stray, uidSum, ledgerFile0, otherVars>>

\* organizer, lines 16-25
OrganizerBegin ==
    /\ pc = "organizer"
    /\ SRC_subdir \in SrcDirs
    /\ totalFiles_subdir' = Cardinality(Listing(fs, SRC_subdir))
    /\ input_dcms' \in Perms(Listing(fs, SRC_subdir) \ processed_dcms)
    /\ i' = 1
    /\ counter_subdir' = 0 /\ error_count_subdir' = 0 /\ UID_count_subdir' = 0
    /\ ds' = NoFile
    /\ moveFailed' = FALSE
    /\ pc' = "loop"
    /\ UNCHANGED <<envVars, uidSum, ledgerFile0, otherVars>>
    /\ UNCHANGED <<fsVars, argVars, processed_dcms, totVars, budgetVars,
                   presented, lastSaved, runSeen, repeat, ledger0, crashPc>>

\* (variant: the except branch leaves the loop, "break" for "continue")
Except_Break ==
    /\ error_count_subdir' = error_count_subdir + 1
    /\ i' = Len(input_dcms) + 1
    /\ pc' = "loop"

\* the except branch, lines 41-44
Except ==
    /\ error_count_subdir' = error_count_subdir + 1
    /\ i' = i + 1
    /\ pc' = "loop"

\* organizer, lines 29-34: read the metadata, apply the filter, test for the series directory
LoopRead ==
    /\ pc = "loop"
    /\ i <= Len(input_dcms)
    /\ LET c == meta[fs[FilePath(SRC_subdir, input_dcms[i])]] IN
        /\ presented' = presented \cup {input_dcms[i]}
        /\ IF ReadFails(c)
           THEN Except /\ ds' = NoFile
           ELSE IF FilterMatches(c)
           THEN /\ ds' = c
                /\ pc' = IF out_dir(c.SeriesInstanceUID) \in dirs THEN "move" ELSE "makedirs"
                /\ UNCHANGED <<i, error_count_subdir>>
           ELSE /\ ds' = NoFile
                /\ i' = i + 1
                /\ pc' = "loop"
                /\ UNCHANGED error_count_subdir
    /\ UNCHANGED <<envVars, uidSum, ledgerFile0, otherVars>>
    /\ UNCHANGED <<fsVars, argVars, processed_dcms, input_dcms, counter_subdir, totalFiles_subdir,
                   UID_count_subdir, totVars, budgetVars, moveFailed, lastSaved, runSeen, repeat, ledger0, crashPc>>

\* (variant: the series directory is created without counting it)
LoopMakedirs_NoCount ==
    /\ pc = "makedirs"
    /\ dirs' = dirs \cup {out_dir(ds.SeriesInstanceUID)}
    /\ pc' = "move"
    /\ UNCHANGED <<envVars, uidSum, ledgerFile0, otherVars>>
    /\ UNCHANGED <<meta, fs, ledgerFile, argVars, processed_dcms, input_dcms, i, ds, counter_subdir,
                   error_count_subdir, totalFiles_subdir, UID_count_subdir, totVars, budgetVars, histVars>>

\* organizer, lines 35-36
LoopMakedirs ==
    /\ pc = "makedirs"
    /\ dirs' = dirs \cup {out_dir(ds.SeriesInstanceUID)}
    /\ UID_count_subdir' = UID_count_subdir + 1
    /\ pc' = "move"
    /\ UNCHANGED <<envVars, uidSum, ledgerFile0, otherVars>>
    /\ UNCHANGED <<meta, fs, ledgerFile, argVars, processed_dcms, input_dcms, i, ds, counter_subdir,
                   error_count_subdir, totalFiles_subdir, totVars, budgetVars, histVars>>

\* organizer, line 35 raising (permissions, disk full): lines 41-44
LoopMakedirsFails ==
    /\ pc = "makedirs"
    /\ faults < MaxFaults
    /\ faults' = faults + 1
    /\ moveFailed' = TRUE
    /\ Except
    /\ ds' = NoFile
    /\ UNCHANGED <<envVars, uidSum, ledgerFile0, otherVars>>
    /\ UNCHANGED <<fsVars, argVars, processed_dcms, input_dcms, counter_subdir, totalFiles_subdir,
                   UID_count_subdir, totVars, runs, crashes, presented, lastSaved, runSeen, repeat, ledger0, crashPc>>

\* shutil.move(src_path, out_path): a rename, which replaces a file already at out_path
Move(f, src_path, out_path) == [f EXCEPT ![out_path] = f[src_path], ![src_path] = Nil]

\* organizer, lines 32-33, 37-38
LoopMove ==
    /\ pc = "move"
    /\ fs' = Move(fs, FilePath(SRC_subdir, input_dcms[i]),
                  FilePath(out_dir(ds.SeriesInstanceUID), input_dcms[i]))
    /\ counter_subdir' = counter_subdir + 1
    /\ i' = i + 1
    /\ ds' = NoFile
    /\ pc' = "loop"
    /\ UNCHANGED <<envVars, uidSum, ledgerFile0, otherVars>>
    /\ UNCHANGED <<meta, dirs, ledgerFile, argVars, processed_dcms, input_dcms, error_count_subdir,
                   totalFiles_subdir, UID_count_subdir, totVars, budgetVars, histVars>>

\* organizer, line 37 raising: lines 41-44
LoopMoveFails ==
    /\ pc = "move"
    /\ faults < MaxFaults
    /\ faults' = faults + 1
    /\ moveFailed' = TRUE
    /\ Except
    /\ ds' = NoFile
    /\ UNCHANGED <<envVars, uidSum, ledgerFile0, otherVars>>
    /\ UNCHANGED <<fsVars, argVars, processed_dcms, input_dcms, counter_subdir, totalFiles_subdir,
                   UID_count_subdir, totVars, runs, crashes, presented, lastSaved, runSeen, repeat, ledger0, crashPc>>

\* organizer, line 46, and main, lines 121-124 / 133-134: the organizer returns and
\* main merges the returned list into the ledger (flat mode also takes the counts)
OrganizerReturn ==
    /\ pc = "loop"
    /\ i > Len(input_dcms)
    /\ processed_dcms' = Merge(processed_dcms, Range(input_dcms))
    /\ runSeen' = runSeen \cup Range(input_dcms)
    /\ IF SUBDIRS
       THEN UNCHANGED totVars
       ELSE /\ counter' = counter_subdir
            /\ error_count' = error_count_subdir
            /\ totalFiles' = totalFiles_subdir
            /\ UID_count' = UID_count_subdir
    /\ uidSum' = uidSum + UID_count_subdir
    /\ pc' = "save_open"
    /\ UNCHANGED <<fsVars, argVars, orgVars, budgetVars, moveFailed, presented, lastSaved, repeat, ledger0, crashPc>>
    /\ UNCHANGED <<envVars, ledgerFile0, otherVars>>

\* main, line 125 / 135: open(LOG_FNAME, 'w') truncates the ledger file
SaveOpen ==
    /\ pc = "save_open"
    /\ ledgerFile' = LedgerPartial
    /\ pc' = "save_dump"
    /\ UNCHANGED <<envVars, uidSum, ledgerFile0, otherVars>>
    /\ UNCHANGED <<meta, fs, dirs, argVars, processed_dcms, orgVars, totVars, budgetVars, histVars>>

\* main, lines 126-131 / 136: json.dump and close, then (in -s mode) add the counts
\* and go on to the next sub-directory; after the last one, the summary
SaveDump ==
    /\ pc = "save_dump"
    /\ ledgerFile' \in Dumps(processed_dcms)
    /\ lastSaved' = processed_dcms
    /\ IF SUBDIRS
       THEN /\ counter' = counter + counter_subdir
            /\ error_count' = error_count + error_count_subdir
            /\ totalFiles' = totalFiles + totalFiles_subdir
            /\ UID_count' = UID_count + UID_count_subdir
       ELSE UNCHANGED totVars
    /\ IF SUBDIRS /\ k < Len(sub_dirs)
       THEN /\ k' = k + 1
            /\ SRC_subdir' = SubDirPath(sub_dirs[k + 1])
            /\ pc' = "organizer"
            /\ UNCHANGED exit_status
       ELSE /\ pc' = "done"
            /\ exit_status' = 0
            /\ UNCHANGED <<k, SRC_subdir>>
    /\ UNCHANGED <<stray, logs_dir, run_log, uidSum, ledgerFile0, otherVars>>
    /\ UNCHANGED <<meta, fs, dirs, SUBDIRS, SRC, sub_dirs, processed_dcms, orgVars, budgetVars,
                   moveFailed, presented, runSeen, repeat, ledger0, crashPc>>

\* the process is killed (power loss, kill, KeyboardInterrupt): memory is gone,
\* the file system stays as it is
Crash ==
    /\ pc \notin Stopped
    /\ crashes < MaxCrashes
    /\ crashes' = crashes + 1
    /\ pc' = "crashed"
    /\ processed_dcms' = {}
    /\ ResetCall
    /\ counter' = 0 /\ error_count' = 0 /\ totalFiles' = 0 /\ UID_count' = 0
    /\ crashPc' = pc
    /\ UNCHANGED <<envVars, uidSum, ledgerFile0, otherVars>>
    /\ UNCHANGED <<fsVars, argVars, runs, faults, moveFailed, presented, lastSaved, runSeen, repeat, ledger0>>

Run ==
    \/ \E d \in SrcDirs : StartRun(FALSE, d, <<>>)
    \/ \E order \in Perms(SubDirNames \cup stray) : StartRun(TRUE, IFOLDER, order)
    \/ OrganizerBegin
    \/ LoopRead
    \/ LoopMakedirs
    \/ LoopMakedirsFails
    \/ LoopMove
    \/ LoopMoveFails
    \/ OrganizerReturn
    \/ SaveOpen
    \/ SaveDump

Next == Run \/ Crash

Spec == Init /\ [][Next]_vars

\* organizer, line 21, on an entry of the -i folder that is not a directory (-s mode,
\* main lines 116-121): os.listdir raises NotADirectoryError outside every try block;
\* the process ends with a traceback and exit status 1
ListdirFails ==
    /\ pc = "organizer"
    /\ SRC_subdir \notin SrcDirs
    /\ pc' = "aborted"
    /\ exit_status' = 1
    /\ processed_dcms' = {}
    /\ ResetCall
    /\ counter' = 0 /\ error_count' = 0 /\ totalFiles' = 0 /\ UID_count' = 0
    /\ UNCHANGED <<stray, logs_dir, run_log, uidSum, ledgerFile0, otherVars>>
    /\ UNCHANGED <<fsVars, argVars, budgetVars, histVars>>

\* main, lines 50-94, on a command line getopt rejects: logging is set up and the
\* ledger is read before the arguments are parsed; then usage and sys.exit()
UsageExit(argv) ==
    /\ pc \in Stopped
    /\ runs < MaxRuns
    /\ ~Getopt(argv, OrganizerShort, OrganizerLong).ok
    /\ runs' = runs + 1
    /\ SetUpLogging
    /\ pc' = "usage"
    /\ exit_status' = 0
    /\ processed_dcms' = {}
    /\ ResetCall
    /\ counter' = 0 /\ error_count' = 0 /\ totalFiles' = 0 /\ UID_count' = 0
    /\ UNCHANGED <<stray, uidSum, ledgerFile0, otherVars>>
    /\ UNCHANGED <<fsVars, argVars, faults, crashes, histVars>>

\* the files of InitCli: none, not DICOM, a matching or a non-matching data set
CliContents == {NoFile, Corrupt, Dicom("CT", "HEAD", "S1"), Dicom("MR", "HEAD", "S2")}

InitCli ==
    /\ SkullOff /\ ConvOff /\ PipeOff
    /\ meta \in {m \in [SrcPaths -> CliContents] : \A p \in SrcPaths \ InitialPaths : m[p] = NoFile}
    /\ stray \in SUBSET StrayNames
    /\ ledgerFile = LedgerMissing
    /\ InitOrganizer

NextCli ==
    \/ Run
    \/ ListdirFails
    \/ \E argv \in OrganizerArgvs : UsageExit(argv)

\* the command line of the organizer, without crashes
SpecCli == InitCli /\ [][NextCli]_vars

\* ------------------------------------------------------------ the ledger alone
MaxLedgerLen == 3       \* entries of a persisted ledger

LedgerNames == Names \cup {"c.dcm"}
\* what logs/organized_dcms.log may hold when the program starts: nothing, text that
\* is not JSON, or a JSON list of filenames (in any order, repetitions included)
PersistedLedgers ==
    {LedgerMissing, LedgerPartial}
        \cup UNION {{LedgerJson(l) : l \in [1..n -> LedgerNames]} : n \in 0..MaxLedgerLen}

InitLedger ==
    /\ SkullOff /\ ConvOff /\ PipeOff
    /\ meta = [p \in SrcPaths |-> NoFile]
    /\ stray = {}
    /\ ledgerFile \in PersistedLedgers
    /\ InitOrganizer

\* main, lines 81-86: load the ledger; nothing is organized before the save
RoundTripLoad ==
    /\ pc = "idle"
    /\ processed_dcms' = Load(ledgerFile)
    /\ pc' = "save_open"
    /\ UNCHANGED <<fsVars, argVars, orgVars, totVars, budgetVars, histVars, envVars, uidSum,
                   ledgerFile0, otherVars>>

NextLedger == RoundTripLoad \/ SaveOpen \/ SaveDump

\* load the ledger and save it back
SpecLedger == InitLedger /\ [][NextLedger]_vars

\* the organizer not running, on an empty input folder
OrganizerOff ==
    /\ meta = [p \in SrcPaths |-> NoFile]
    /\ stray = {}
    /\ ledgerFile = LedgerMissing
    /\ InitOrganizer

\* ------------------------------------------------------- skull_extraction.py
\* (variant: the last of several largest components, ">=" for ">")
ArgMaxScan_Last(s, j, best) ==
    IF j > Len(s) THEN best
    ELSE IF s[j] >= s[best] THEN j ELSE best

\* one step of np.argmax over a list: keep the first largest value seen
ArgMaxScan(s, j, best) ==
    IF j > Len(s) THEN best
    ELSE IF s[j] > s[best] THEN j ELSE best

RECURSIVE ArgMaxFrom(_, _, _)
ArgMaxFrom(s, j, best) ==
    IF j > Len(s) THEN best ELSE ArgMaxFrom(s, j + 1, ArgMaxScan(s, j, best))

\* np.argmax([x.faces.shape[0] for x in splitted_mesh]), 0-based, for a non-empty list
ArgMax(s) == ArgMaxFrom(s, 2, 1) - 1

SkullFrame == UNCHANGED <<organizerVars, convVars, pipeVars>>

InitSkull ==
    /\ OrganizerOff /\ ConvOff /\ PipeOff
    /\ sk_pc = "start"
    /\ stl_file \in StlNames
    /\ mesh \in Meshes
    /\ splitted_mesh = <<>>
    /\ skull_position = -1
    /\ exported = [n \in StlNames |-> NoExport]
    /\ sk_errors = 0

\* skull_extraction, lines 23-24: load the mesh and split it into components
SkSplit ==
    /\ sk_pc = "start"
    /\ splitted_mesh' = mesh
    /\ sk_pc' = "split"
    /\ UNCHANGED <<stl_file, mesh, skull_position, exported, sk_errors>>
    /\ SkullFrame

\* skull_extraction, line 25
SkArgmax ==
    /\ sk_pc = "split"
    /\ Len(splitted_mesh) > 0
    /\ skull_position' = ArgMax(splitted_mesh)
    /\ sk_pc' = "picked"
    /\ UNCHANGED <<stl_file, mesh, splitted_mesh, exported, sk_errors>>
    /\ SkullFrame

\* skull_extraction, line 25 on a mesh without components: np.argmax raises ValueError,
\* main, lines 89-94, counts the error
SkArgmaxRaises ==
    /\ sk_pc = "split"
    /\ Len(splitted_mesh) = 0
    /\ sk_errors' = sk_errors + 1
    /\ sk_pc' = "failed"
    /\ UNCHANGED <<stl_file, mesh, splitted_mesh, skull_position, exported>>
    /\ SkullFrame

\* skull_extraction, lines 26-29: split again, take the component, export it as
\* outputfolder + '/' + stl_file
SkExport ==
    /\ sk_pc = "picked"
    /\ exported' = [exported EXCEPT ![stl_file] =
                        [index |-> skull_position, faces |-> mesh[skull_position + 1]]]
    /\ sk_pc' = "exported"
    /\ UNCHANGED <<stl_file, mesh, splitted_mesh, skull_position, sk_errors>>
    /\ SkullFrame

NextSkull == SkSplit \/ SkArgmax \/ SkArgmaxRaises \/ SkExport

SpecSkull == InitSkull /\ [][NextSkull]_vars

\* ------------------------------------------------------- dicom2stl_tuned.py
ConvFrame == UNCHANGED <<organizerVars, skullVars, pipeVars>>

\* the threshold lists -d may have given: none, two values, four values
DoubleValues == {<<>>, <<150, 800>>, <<150, 800, 1500, 2000>>}

\* after option parsing (lines 110-200): the scan sub-directories listed, the options set
InitConv ==
    /\ OrganizerOff /\ SkullOff /\ PipeOff
    /\ cv_pc = "loop"
    /\ cv_sub_dirs \in UNION {[1..n -> ScanKinds] : n \in 0..MaxScans}
    /\ cv_n = 1 /\ cv_counter = 0 /\ cv_errors = 0 /\ cv_attempted = {} /\ cv_stls = {}
    /\ CTonly \in BOOLEAN
    /\ tissueType \in {"", "bone", "lung"}
    /\ thresholds \in DoubleValues
    /\ doubleThreshold = (tissueType # "" \/ thresholds # <<>>)
    /\ tempDir \in {NoTempDir, UserTempDir}
    /\ tempDirs = IF tempDir = NoTempDir THEN {} ELSE {tempDir}
    /\ cv_made = 0
    /\ cv_exit = Running /\ cv_processed = 0

\* lines 526-531: except Exception: errors += 1, log, continue
CvExcept ==
    /\ cv_errors' = cv_errors + 1
    /\ cv_n' = cv_n + 1
    /\ cv_pc' = "loop"

\* lines 233-260: count the scan, make a temporary directory if there is none,
\* take the thresholds of a known tissue type
CvScanBegin ==
    /\ cv_pc = "loop"
    /\ cv_n <= Len(cv_sub_dirs)
    /\ cv_counter' = cv_counter + 1
    /\ cv_attempted' = cv_attempted \cup {cv_n}
    /\ IF tempDir = NoTempDir
       THEN /\ tempDir' = Mkdtemp(cv_made + 1)
            /\ tempDirs' = tempDirs \cup {Mkdtemp(cv_made + 1)}
            /\ cv_made' = cv_made + 1
       ELSE UNCHANGED <<tempDir, tempDirs, cv_made>>
    /\ thresholds' = IF tissueType = "bone" THEN <<150, 800, 1500, 2000>> ELSE thresholds
    /\ cv_pc' = "thresholds"
    /\ UNCHANGED <<cv_sub_dirs, cv_n, cv_errors, cv_stls, CTonly, doubleThreshold, tissueType,
                   cv_exit, cv_processed>>
    /\ ConvFrame

\* lines 262-275: sys.exit(3) unless there are four thresholds; SystemExit is not an
\* Exception, the except branch of line 526 does not catch it
CvThresholds ==
    /\ cv_pc = "thresholds"
    /\ IF doubleThreshold /\ Len(thresholds) # 4
       THEN cv_pc' = "exited" /\ cv_exit' = 3
       ELSE cv_pc' = "load" /\ UNCHANGED cv_exit
    /\ UNCHANGED <<cv_sub_dirs, cv_n, cv_counter, cv_errors, cv_attempted, cv_stls, CTonly,
                   doubleThreshold, thresholds, tissueType, tempDir, tempDirs, cv_made, cv_processed>>
    /\ ConvFrame

\* lines 277-348: load the largest series (loadLargestSeries returns None when there is
\* no series, and unpacking None raises TypeError); sys.exit(1) on a modality that is
\* not CT when --ct was given
CvLoad ==
    /\ cv_pc = "load"
    /\ LET kind == cv_sub_dirs[cv_n] IN
        IF kind = "none"
        THEN CvExcept /\ UNCHANGED cv_exit
        ELSE IF CTonly /\ kind = "mr"
        THEN cv_pc' = "exited" /\ cv_exit' = 1 /\ UNCHANGED <<cv_n, cv_errors>>
        ELSE cv_pc' = "process" /\ UNCHANGED <<cv_n, cv_errors, cv_exit>>
    /\ UNCHANGED <<cv_sub_dirs, cv_counter, cv_attempted, cv_stls, CTonly, doubleThreshold,
                   thresholds, tissueType, tempDir, tempDirs, cv_made, cv_processed>>
    /\ ConvFrame

\* lines 364-524: filter, extract and write the mesh, then remove the temporary
\* directory; a library call that raises goes to the except branch
CvProcess ==
    /\ cv_pc = "process"
    /\ IF cv_sub_dirs[cv_n] = "broken"
       THEN CvExcept /\ UNCHANGED <<cv_stls, tempDir, tempDirs>>
       ELSE /\ cv_stls' = cv_stls \cup {cv_n}
            /\ IF cleanUp
               THEN tempDirs' = tempDirs \ {tempDir} /\ tempDir' = NoTempDir
               ELSE UNCHANGED <<tempDir, tempDirs>>
            /\ cv_n' = cv_n + 1
            /\ cv_pc' = "loop"
            /\ UNCHANGED cv_errors
    /\ UNCHANGED <<cv_sub_dirs, cv_counter, cv_attempted, CTonly, doubleThreshold, thresholds,
                   tissueType, cv_made, cv_exit, cv_processed>>
    /\ ConvFrame

\* lines 533-538: 'BATCH PROCESSING COMPLETED', counter - errors 'SCANS PROCESSED'
CvSummary ==
    /\ cv_pc = "loop"
    /\ cv_n > Len(cv_sub_dirs)
    /\ cv_processed' = cv_counter - cv_errors
    /\ cv_pc' = "summary"
    /\ cv_exit' = 0
    /\ UNCHANGED <<cv_sub_dirs, cv_n, cv_counter, cv_errors, cv_attempted, cv_stls, CTonly,
                   doubleThreshold, thresholds, tissueType, tempDir, tempDirs, cv_made>>
    /\ ConvFrame

NextConv == CvScanBegin \/ CvThresholds \/ CvLoad \/ CvProcess \/ CvSummary

\* the batch loop of the converter
SpecConv == InitConv /\ [][NextConv]_vars

\* ------------------------------------------------------- dicom2skull_pipe.py
PipeFrame == UNCHANGED <<organizerVars, skullVars, convVars>>

\* dicom2skull_pipe: "hi:o:n:v:q:k:" and
\* ["ifolder=","ofolder=","noclean","value=","qualityt=","keep-duplicates"]
PipeShort == [flags |-> {"h"}, valued |-> {"i", "o", "n", "v", "q", "k"}]
PipeLong == [flags |-> {"noclean", "keep-duplicates"},
             valued |-> {"ifolder", "ofolder", "value", "qualityt"}]

\* dicom2stl_tuned: "vDhacli:s:t:d:o:m:T:" and the long options of lines 111-115
ConverterShort == [flags |-> {"v", "D", "h", "a", "c", "l"},
                   valued |-> {"i", "s", "t", "d", "o", "m", "T"}]
ConverterLong == [flags |-> {"verbose", "help", "debug", "anisotropic", "clean", "ct", "largest",
                             "metadata"},
                  valued |-> {"isovalue", "search", "type", "double", "disable", "enable",
                              "rotaxis", "rotangle", "smooth", "reduce", "temp"}]

\* str(float(arg)) and str(int(arg)) for the arguments used below
FloatStr(a) == CASE a = "200" -> "200.0" [] a = "0.5" -> "0.5"
IntStr(a) == CASE a = "050" -> "50" [] a = "100" -> "100"

\* the command lines given to the pipeline: -i and -o, then any of the other options;
\* one without -i; one with an option getopt rejects
PipeArgvs ==
    {<<Short("i"), Word("scans"), Short("o"), Word("skulls")>> \o v \o q \o kd \o n :
        v \in {<<>>, <<Short("v"), Word("200")>>, <<Long("value"), Word("0.5")>>},
        q \in {<<>>, <<Short("q"), Word("050")>>, <<Long("qualityt"), Word("100")>>},
        kd \in {<<>>, <<Long("keep-duplicates")>>, <<Short("k"), Word("y")>>},
        n \in {<<>>, <<Short("n"), Word("y")>>, <<Long("noclean")>>}}
    \cup {<<Short("o"), Word("skulls")>>, <<Short("x")>>}

\* the option loop, lines 22-37, on one option; --noclean is accepted by getopt and
\* matches no branch (line 30 tests for "--no_clean")
PipeOption(cfg, o) ==
    LET is(short, long) == \/ o.opt.kind = "short" /\ o.opt.name = short
                           \/ o.opt.kind = "long" /\ o.opt.name = long
    IN  IF is("i", "ifolder") THEN [cfg EXCEPT !.dicom_dir = o.arg]
        ELSE IF is("o", "ofolder") THEN [cfg EXCEPT !.output = o.arg]
        ELSE IF is("n", "no_clean") THEN [cfg EXCEPT !.clean_tmp = FALSE]
        ELSE IF is("v", "value") THEN [cfg EXCEPT !.isovalue = FloatStr(o.arg)]
        ELSE IF is("q", "qualityt") THEN [cfg EXCEPT !.lowq_threshold = IntStr(o.arg)]
        ELSE IF is("k", "keep-duplicates") THEN [cfg EXCEPT !.keep_duplicates = TRUE]
        ELSE cfg

RECURSIVE PipeOptions(_, _, _)
PipeOptions(cfg, opts, j) ==
    IF j > Len(opts) THEN cfg ELSE PipeOptions(PipeOption(cfg, opts[j]), opts, j + 1)

\* lines 9-14
PipeDefaults == [clean_tmp |-> TRUE, dicom_dir |-> "", output |-> "", isovalue |-> "150",
                 lowq_threshold |-> "100", keep_duplicates |-> FALSE]

\* the command line of lines 47-50 after the shell has split it into words
Stage1Argv ==
    <<Short("c"), Short("i"), Word(isovalue), Short("q"), Word(lowq_threshold)>>
        \o (IF keep_duplicates THEN <<Long("keep-duplicates")>> ELSE <<>>)
        \o <<Short("o"), Word("tmp/")>>
        \o (IF dicom_dir = "" THEN <<>> ELSE <<Word(dicom_dir)>>)

InitPipe ==
    /\ OrganizerOff /\ SkullOff /\ ConvOff
    /\ pp_pc = "start"
    /\ pp_argv \in PipeArgvs
    /\ clean_tmp = TRUE /\ keep_duplicates = FALSE /\ isovalue = "150" /\ lowq_threshold = "100"
    /\ dicom_dir = "" /\ output = ""
    /\ tmp_dir \in BOOLEAN
    /\ stage1_argv = <<>> /\ stage1_status = Running
    /\ stage1_attempted = FALSE /\ stage2_ran = FALSE /\ pp_removed = FALSE

\* main, lines 9-37: parse the command line; usage and sys.exit() when getopt rejects it
PpParse ==
    /\ pp_pc = "start"
    /\ LET r == Getopt(pp_argv, PipeShort, PipeLong) IN
        IF r.ok
        THEN LET cfg == PipeOptions(PipeDefaults, r.opts, 1) IN
             /\ clean_tmp' = cfg.clean_tmp /\ keep_duplicates' = cfg.keep_duplicates
             /\ isovalue' = cfg.isovalue /\ lowq_threshold' = cfg.lowq_threshold
             /\ dicom_dir' = cfg.dicom_dir /\ output' = cfg.output
             /\ pp_pc' = "tmp"
        ELSE /\ pp_pc' = "usage"
             /\ UNCHANGED <<clean_tmp, keep_duplicates, isovalue, lowq_threshold, dicom_dir, output>>
    /\ UNCHANGED <<pp_argv, tmp_dir, stage1_argv, stage1_status, stage1_attempted, stage2_ran, pp_removed>>
    /\ PipeFrame

\* main, lines 40-44: make <cwd>/tmp/ if it is not there
PpMakeTmp ==
    /\ pp_pc = "tmp"
    /\ tmp_dir' = TRUE
    /\ pp_pc' = "stage1"
    /\ UNCHANGED <<pp_argv, clean_tmp, keep_duplicates, isovalue, lowq_threshold, dicom_dir, output,
                   stage1_argv, stage1_status, stage1_attempted, stage2_ran, pp_removed>>
    /\ PipeFrame

\* main, lines 46-50: os.system runs dicom2stl_tuned.py and its status is dropped.  The
\* converter parses its command line first (lines 110-119): on GetoptError it prints
\* the usage and exits with status 2; otherwise it goes on to its batch loop and
\* ends with the summary (0) or one of its sys.exit calls (1, 3)
PpStage1 ==
    /\ pp_pc = "stage1"
    /\ stage1_argv' = Stage1Argv
    /\ IF Getopt(Stage1Argv, ConverterShort, ConverterLong).ok
       THEN stage1_attempted' = TRUE /\ stage1_status' \in {0, 1, 3}
       ELSE stage1_attempted' = FALSE /\ stage1_status' = 2
    /\ pp_pc' = "stage2"
    /\ UNCHANGED <<pp_argv, clean_tmp, keep_duplicates, isovalue, lowq_threshold, dicom_dir, output,
                   tmp_dir, stage2_ran, pp_removed>>
    /\ PipeFrame

\* main, line 53: os.system runs skull_extraction.py on <cwd>/tmp/
PpStage2 ==
    /\ pp_pc = "stage2"
    /\ stage2_ran' = TRUE
    /\ pp_pc' = "cleanup"
    /\ UNCHANGED <<pp_argv, clean_tmp, keep_duplicates, isovalue, lowq_threshold, dicom_dir, output,
                   tmp_dir, stage1_argv, stage1_status, stage1_attempted, pp_removed>>
    /\ PipeFrame

\* main, lines 55-60: remove <cwd>/tmp/ unless told not to
PpCleanup ==
    /\ pp_pc = "cleanup"
    /\ IF clean_tmp
       THEN tmp_dir' = FALSE /\ pp_removed' = TRUE
       ELSE UNCHANGED <<tmp_dir, pp_removed>>
    /\ pp_pc' = "end"
    /\ UNCHANGED <<pp_argv, clean_tmp, keep_duplicates, isovalue, lowq_threshold, dicom_dir, output,
                   stage1_argv, stage1_status, stage1_attempted, stage2_ran>>
    /\ PipeFrame

NextPipe == PpParse \/ PpMakeTmp \/ PpStage1 \/ PpStage2 \/ PpCleanup

\* one run of the pipeline
SpecPipe == InitPipe /\ [][NextPipe]_vars

\* ---------------------------------------------------------------- properties
\* the classes of files the properties speak of, stated on what a file holds
Files == {p \in SrcPaths : meta[p].kind # "none"}
FileName(f) == f[Len(f)]
FileDir(f) == SubSeq(f, 1, Len(f) - 1)
Where(f) == {p \in AllPaths : fs[p] = f}

\* readable, modality and body part equal to the filter
IsMatching(c) ==
    /\ c.kind = "dicom"
    /\ c.Modality = "CT" /\ c.BodyPartExamined = "HEAD"
    /\ c.SeriesInstanceUID # Absent

\* read without failure, modality or body part different from the filter
IsNonMatching(c) ==
    /\ c.kind = "dicom"
    /\ c.Modality # Absent
    /\ \/ c.Modality # "CT"
       \/ c.BodyPartExamined \notin {Absent, "HEAD"}

\* the metadata read fails: not DICOM, or an attribute the filter needs is absent
IsUnreadable(c) == c.kind # "none" /\ ~IsMatching(c) /\ ~IsNonMatching(c)

\* outputBase/seriesInstanceUID/filename of a matching file
Dest(f) == <<"out", meta[f].SeriesInstanceUID, FileName(f)>>

ScannedDirs == IF SUBDIRS THEN SrcDirs ELSE {SRC}

\* C1 - Conservation: after a complete run, every readable, filter-matching file of a
\* scanned directory is in exactly one place, outputBase/seriesInstanceUID/<its name>.
\* Stated for the first run of a behaviour with no failure and no crash injected.
C1_Conservation ==
    (pc = "done" /\ runs = 1 /\ faults = 0 /\ crashes = 0) =>
        \A f \in Files :
            (FileDir(f) \in ScannedDirs /\ IsMatching(meta[f])) => Where(f) = {Dest(f)}

\* C2 - Idempotence: a run that repeats the previous, completed run (same arguments,
\* ledger as that run saved it) organizes nothing, changes neither the source
\* directories nor the output tree, and ends with the same persisted ledger set.
C2_Idempotence ==
    /\ [](repeat /\ pc = "done" => counter = 0 /\ Load(ledgerFile) = ledger0)
    /\ [][repeat /\ pc \notin Stopped => fs' = fs /\ dirs' = dirs]_vars

C2_Witness ==
    /\ repeat /\ pc = "done"
    /\ \E p \in OutPaths : fs[p] # Nil
    /\ \E d \in ScannedDirs : Listing(fs, d) # {}

\* C3 - Crash resilience: in every reachable state every initial file is at exactly one
\* place, its source path or a path in a series directory.
C3_NoLossNoDuplicate ==
    \A f \in Files :
        /\ Cardinality(Where(f)) = 1
        /\ Where(f) \subseteq {f} \cup OutPaths

\* C4 - Series grouping: two organized files are in the same series directory if and
\* only if they have the same SeriesInstanceUID.
C4_SeriesGrouping ==
    \A p, q \in OutPaths :
        (fs[p] # Nil /\ fs[q] # Nil) =>
            (FileDir(p) = FileDir(q) <=>
                meta[fs[p]].SeriesInstanceUID = meta[fs[q]].SeriesInstanceUID)

C4_Witness ==
    \E p, q, r \in OutPaths :
        /\ fs[p] # Nil /\ fs[q] # Nil /\ fs[r] # Nil
        /\ p # q /\ FileDir(p) = FileDir(q)
        /\ FileDir(r) # FileDir(p)

\* C5 - the persisted ledger holds the name of a readable, filter-matching file only if
\* that file has been moved to its series directory.  Stated for the files whose
\* name no other file has.
C5_LedgerOnlyMoved ==
    \A f \in Files :
        /\ IsMatching(meta[f])
        /\ \A g \in Files : FileName(g) = FileName(f) => g = f
        /\ FileName(f) \in Load(ledgerFile)
        => fs[Dest(f)] = f

\* the files of the directory the current organizer call works on: those it found
\* there (still in place, or a candidate of this call) and its candidates
DirAtCall == {f \in Files : FileDir(f) = SRC_subdir /\ (fs[f] = f \/ FileName(f) \in Range(input_dcms))}
CandidatesOfCall == {f \in Files : FileDir(f) = SRC_subdir /\ FileName(f) \in Range(input_dcms)}

\* C6 as stated - Error isolation: an organizer call in which no makedirs/move failed
\* has organized every readable, filter-matching file of the directory, has left the
\* unreadable ones in place, and returns their number as its error count.  Stated
\* for source trees in which no two files have the same name.
C6_AllFilesOfDirectory ==
    (pc = "save_open" /\ ~moveFailed /\ \A f, g \in Files : FileName(f) = FileName(g) => f = g) =>
        /\ \A f \in DirAtCall : IsMatching(meta[f]) => fs[Dest(f)] = f
        /\ \A f \in DirAtCall : IsUnreadable(meta[f]) => fs[f] = f
        /\ error_count_subdir = Cardinality({f \in DirAtCall : IsUnreadable(meta[f])})

\* C6 amended - Error isolation for the files of the directory that are not in the
\* ledger (the candidates): all readable, filter-matching candidates are organized
\* wherever the unreadable ones stand in the listing, the unreadable ones stay in
\* place, and the error count is exactly the number of unreadable candidates.
C6_ErrorIsolation ==
    (pc = "save_open" /\ ~moveFailed) =>
        /\ \A f \in CandidatesOfCall : IsMatching(meta[f]) => fs[Dest(f)] = f
        /\ counter_subdir = Cardinality({f \in CandidatesOfCall : IsMatching(meta[f])})
        /\ \A f \in CandidatesOfCall : IsUnreadable(meta[f]) => fs[f] = f
        /\ error_count_subdir = Cardinality({f \in CandidatesOfCall : IsUnreadable(meta[f])})

C6_Witness ==
    /\ pc = "save_open" /\ ~moveFailed
    /\ Len(input_dcms) = 2
    /\ IsUnreadable(meta[FilePath(SRC_subdir, input_dcms[1])])
    /\ IsMatching(meta[FilePath(SRC_subdir, input_dcms[2])])
    /\ counter_subdir = 1 /\ error_count_subdir = 1

\* C7 - Non-matching files are untouched: a file read without failure whose modality
\* or body part differs from the filter is always at its source path and nowhere
\* else; the step that classifies it changes no count, creates no directory and
\* moves nothing; its name is in the list returned and merged into the ledger.
C7_NonMatchingUntouched ==
    /\ [](\A f \in Files : IsNonMatching(meta[f]) => Where(f) = {f})
    /\ [](pc = "save_open" =>
            \A f \in CandidatesOfCall : IsNonMatching(meta[f]) => FileName(f) \in processed_dcms)
    /\ [][(/\ pc = "loop" /\ i <= Len(input_dcms) /\ pc' # "crashed"
           /\ IsNonMatching(meta[FilePath(SRC_subdir, input_dcms[i])]))
          => /\ fs' = fs /\ dirs' = dirs
             /\ counter_subdir' = counter_subdir
             /\ error_count_subdir' = error_count_subdir
             /\ UID_count_subdir' = UID_count_subdir
             /\ i' = i + 1]_vars

C7_Witness ==
    /\ pc = "save_open"
    /\ counter_subdir = 1 /\ error_count_subdir = 0
    /\ \E f \in CandidatesOfCall : IsNonMatching(meta[f]) /\ fs[f] = f

\* C8 - Ledger membership: after complete runs (no crash so far) the persisted ledger
\* holds exactly the filenames handed to the metadata read in some run, and it
\* contains the ledger the run started from.
C8_LedgerMembership ==
    (pc \in {"idle", "done"} /\ crashes = 0) =>
        /\ Load(ledgerFile) = presented
        /\ ledger0 \subseteq Load(ledgerFile)

C8_Witness ==
    /\ pc = "done" /\ crashes = 0 /\ runs = 2
    /\ ledger0 # {} /\ ledger0 # Load(ledgerFile)

\* C9 - Atomic save: in every state the persisted ledger loads as the set last saved
\* completely or, while a save is under way, as the set being saved.
C9_AtomicSave ==
    \/ Load(ledgerFile) = lastSaved
    \/ pc = "save_dump" /\ Load(ledgerFile) = processed_dcms

Organizing == {"organizer", "loop", "makedirs", "move"}

\* C10 - Batch crash bound: in -s mode, while the organizer works on a sub-directory,
\* and after a crash at such a point, the persisted ledger contains every filename
\* evaluated in the sub-directories finished earlier in the run.
C10_BatchCrashBound ==
    (SUBDIRS /\ (pc \in Organizing \/ (pc = "crashed" /\ crashPc \in Organizing))) =>
        runSeen \subseteq Load(ledgerFile)

C10_Witness ==
    /\ SUBDIRS /\ pc = "crashed" /\ crashPc = "move"
    /\ k = 2 /\ runSeen # {}

\* C15 - skull_extraction exports, under the input's file name and nowhere else, a
\* component with at least as many faces as every component of the mesh, the first
\* such component in split order.
C15_LargestComponent ==
    sk_pc = "exported" =>
        LET e == exported[stl_file] IN
            /\ e.index \in 0..(Len(mesh) - 1)
            /\ e.faces = mesh[e.index + 1]
            /\ \A j \in 1..Len(mesh) : mesh[j] <= e.faces
            /\ \A j \in 1..e.index : mesh[j] < e.faces
            /\ \A n \in StlNames \ {stl_file} : exported[n] = NoExport

C15_Witness ==
    /\ sk_pc = "exported"
    /\ Len(mesh) = 3 /\ mesh[1] < mesh[2] /\ mesh[2] = mesh[3]
    /\ exported[stl_file].index = 1

\* C11 - once argument parsing has succeeded, a run of the organizer that has ended
\* has reached the final summary, whatever the source directory holds.
C11_RunCompletes ==
    (runs > 0 /\ pc \in Stopped /\ pc # "usage") => pc = "done"

\* C12 - when command-line parsing fails, the program exits with a non-zero status
\* and has created no log directory and no log file (here: in the first invocation).
C12_ArgFailureNoSideEffect ==
    (pc = "usage" /\ runs = 1) => (exit_status > 0 /\ ~logs_dir /\ run_log = 0)

\* an organizer call is between its first and its last statement
InCall == pc \in {"loop", "makedirs", "move"}
\* the unique-series counts: those returned so far and the one being counted
SeriesCounted == uidSum + (IF InCall THEN UID_count_subdir ELSE 0)
\* the series that have at least one organized file
OrganizedSeries == {u \in UIDs : \E n \in Names : fs[FilePath(Append(OUT, u), n)] # Nil}
\* the scenario on the two files of d1: a matching file of series S1 and a file of
\* another modality, organized by one flat run
Scenario ==
    /\ meta[<<"in", "d1", "a.dcm">>] = Dicom("CT", "HEAD", "S1")
    /\ meta[<<"in", "d1", "b.dcm">>] = Dicom("MR", "HEAD", "S2")
    /\ ~SUBDIRS /\ SRC = <<"in", "d1">> /\ runs = 1 /\ pc = "done"

ItemSet(lf) == {lf.items[j] : j \in DOMAIN lf.items}

\* C14 - loading the persisted ledger and saving the loaded set back leaves the
\* persisted filename set unchanged, for every persisted list of filenames.
C14_LedgerRoundTrip ==
    (pc = "done" /\ ledgerFile0.state = "json") =>
        /\ ledgerFile.state = "json"
        /\ ItemSet(ledgerFile) = ItemSet(ledgerFile0)

C14_Witness ==
    /\ pc = "done" /\ runs = 0
    /\ ledgerFile0.state = "json" /\ Len(ledgerFile0.items) = 3
    /\ Cardinality(ItemSet(ledgerFile0)) = 2
    /\ ledgerFile # ledgerFile0

\* the converter has ended, by the summary or by sys.exit
ConvEnded == cv_pc \in {"summary", "exited"}
\* the scans whose conversion cannot succeed under the options given
FailingScans ==
    {j \in 1..Len(cv_sub_dirs) :
        \/ cv_sub_dirs[j] \in {"none", "broken"}
        \/ CTonly /\ cv_sub_dirs[j] = "mr"
        \/ doubleThreshold /\ Len(thresholds) # 4}
\* the temporary directories made by the script that exist
ScriptTempDirs == {d \in tempDirs : d # UserTempDir}

\* C16 - a converter run that has ended has attempted every sub-directory, counted
\* every failing one and reached the summary, reporting attempted minus failed.
C16_ConverterErrorIsolation ==
    ConvEnded =>
        /\ cv_pc = "summary"
        /\ cv_attempted = 1..Len(cv_sub_dirs)
        /\ cv_errors = Cardinality(FailingScans)
        /\ cv_processed = Len(cv_sub_dirs) - Cardinality(FailingScans)

\* C17 - with clean-up enabled at most one temporary directory made by the script
\* exists, and none exists once the batch loop has ended.
C17_TempDirLifecycle ==
    cleanUp =>
        /\ Cardinality(ScriptTempDirs) <= 1
        /\ (cv_pc = "summary" => ScriptTempDirs = {})

\* the converter's parser knows the option
AcceptedByConverter(t) ==
    \/ t.kind = "word"
    \/ t.kind = "short" /\ t.name \in {"v", "D", "h", "a", "c", "l", "i", "s", "t", "d", "o", "m", "T"}
    \/ t.kind = "long" /\ t.name \in {"verbose", "help", "debug", "anisotropic", "clean", "ct",
                                     "isovalue", "search", "type", "double", "disable", "enable",
                                     "largest", "metadata", "rotaxis", "rotangle", "smooth",
                                     "reduce", "temp"}

\* C18 - every option the pipeline puts on the first stage's command line is one the
\* converter's parser accepts, the first stage does not exit on an argument-parsing
\* error, and the second stage and the clean-up follow a first stage that attempted
\* the conversions.
C18_StageHandOff ==
    stage1_status # Running =>
        /\ \A j \in DOMAIN stage1_argv : AcceptedByConverter(stage1_argv[j])
        /\ stage1_status # 2
        /\ (stage2_ran \/ pp_removed) => stage1_attempted
====
